---------------------------- MODULE Spec2Model ----------------------------
(***************************************************************************)
(* Model of octreelib's recursive tree engine: OctreeNode / Octree         *)
(* (octree.py) and MultiPoseOctreeNode / MultiPoseOctree                   *)
(* (multi_pose_octree.py).                                                 *)
(*                                                                         *)
(* A node is a record with the fields of OctreeNodeBase: corner,           *)
(* edge_length, points, children, has_children.  octree.py spells the      *)
(* fields points/children/has_children and multi_pose_octree.py spells     *)
(* them _points/_children/_has_children; they are the same three fields.   *)
(*                                                                         *)
(* A raw point is a 3-tuple of coordinates, a pose point a 4-tuple whose   *)
(* 4th column is the pose number (points[:, 3] in _filter_by_pose_number). *)
(* Lengths are counted in units of the smallest edge the model can reach,  *)
(* so that the halving edge_length / 2 stays exact, as it is in binary     *)
(* floating point for the depths considered.                               *)
(*                                                                         *)
(* The geometry primitives (octreelib.internal) are not part of the        *)
(* sources at hand; the containment test follows the convention of the     *)
(* design document: min faces inclusive, max faces exclusive, on every     *)
(* box.                                                                    *)
(*                                                                         *)
(* subdivide has no depth cap: a criterion that stays true recurses until  *)
(* Python raises RecursionError, which leaves the tree as the unwound      *)
(* calls built it.  call.raised records that outcome.                      *)
(***************************************************************************)
EXTENDS Integers, Sequences, FiniteSets, TLC

VARIABLES root, variant, call

vars == <<root, variant, call>>

---------------------------------------------------------------------------
(* Bounds *)

\* Stack depth at which Python raises RecursionError (sys.getrecursionlimit()
\* scaled down): the number of nested subdivide calls that can split a node.
RecursionLimit == 2

\* Largest number of points the tree is allowed to hold before an insertion.
MaxPoints == 2

---------------------------------------------------------------------------
(* Geometry *)

RECURSIVE Pow2(_)
Pow2(n) == IF n = 0 THEN 1 ELSE 2 * Pow2(n - 1)

\* Edge length of the root: the deepest reachable node has edge length 1.
RootEdge == Pow2(RecursionLimit)

RootCorner == <<0, 0, 0>>

\* Pose numbers of the points: the two poses of the tests' fixture.
Poses == {0, 1}

without_pose(point) == SubSeq(point, 1, 3)

with_pose_point(point, pose_number) == Append(point, pose_number)

without_poses(points) == [i \in 1 .. Len(points) |-> without_pose(points[i])]

with_pose(points, pose_number) ==
    [i \in 1 .. Len(points) |-> with_pose_point(points[i], pose_number)]

\* Coordinates of a stored point: the multi-pose node strips the pose before
\* every geometric test, the base node stores raw points.
Raw(point) == IF variant = "multi" THEN without_pose(point) ELSE point

\* Point cloud handed to a subdivision criterion.
CriterionCloud(points) == IF variant = "multi" THEN without_poses(points) ELSE points

\* corner, corner + ones(3) * edge_length
bounding_box(node) ==
    <<node.corner, [i \in 1 .. 3 |-> node.corner[i] + node.edge_length]>>

\* Containment: min faces inclusive, max faces exclusive.
point_is_inside_box(point, box) ==
    \A i \in 1 .. 3 : box[1][i] <= point[i] /\ point[i] < box[2][i]

---------------------------------------------------------------------------
(* Nodes *)

\* OctreeNodeBase.__init__: a fresh node is a leaf without points.
Node(corner, edge_length) ==
    [corner |-> corner, edge_length |-> edge_length,
     points |-> <<>>, children |-> <<>>, has_children |-> FALSE]

\* Offsets taken from {0, edge_length} of the parent instead of {0, half}.
children_corners_offsets_full(child_edge_length) ==
    [i \in 1 .. 8 |->
        << ((i - 1) \div 4) * 2 * child_edge_length,
           (((i - 1) \div 2) % 2) * 2 * child_edge_length,
           ((i - 1) % 2) * 2 * child_edge_length >>]

\* itertools.product([0, child_edge_length], repeat=3): last axis fastest.
children_corners_offsets(child_edge_length) ==
    [i \in 1 .. 8 |->
        << ((i - 1) \div 4) * child_edge_length,
           (((i - 1) \div 2) % 2) * child_edge_length,
           ((i - 1) % 2) * child_edge_length >>]

\* Children built with the parent's edge length instead of the halved one.
NewChildrenFullEdge(node) ==
    LET child_edge_length == node.edge_length \div 2
        offsets == children_corners_offsets(child_edge_length)
    IN  [i \in 1 .. 8 |->
            Node([k \in 1 .. 3 |-> node.corner[k] + offsets[i][k]],
                 node.edge_length)]

NewChildren(node) ==
    LET child_edge_length == node.edge_length \div 2
        offsets == children_corners_offsets(child_edge_length)
    IN  [i \in 1 .. 8 |->
            Node([k \in 1 .. 3 |-> node.corner[k] + offsets[i][k]],
                 child_edge_length)]

---------------------------------------------------------------------------
(* Counts and queries *)

RECURSIVE SumSeq(_)
SumSeq(s) == IF s = <<>> THEN 0 ELSE Head(s) + SumSeq(Tail(s))

RECURSIVE Concat(_)
Concat(s) == IF s = <<>> THEN <<>> ELSE Head(s) \o Concat(Tail(s))

RECURSIVE n_points(_)
n_points(node) ==
    IF node.has_children
    THEN SumSeq([i \in 1 .. Len(node.children) |-> n_points(node.children[i])])
    ELSE Len(node.points)

RECURSIVE n_leafs(_)
n_leafs(node) ==
    IF node.has_children
    THEN SumSeq([i \in 1 .. Len(node.children) |-> n_leafs(node.children[i])])
    ELSE 1

\* len(self.children) if self.has_children else 0: no recursion.
n_nodes(node) == IF node.has_children THEN Len(node.children) ELSE 0

RECURSIVE get_points(_)
get_points(node) ==
    IF node.has_children
    THEN Concat([i \in 1 .. Len(node.children) |-> get_points(node.children[i])])
    ELSE node.points

---------------------------------------------------------------------------
(* User-supplied predicates and transformations *)

\* Predicates over a point cloud, as the tests' lambda points: len(points) > 2.
CriterionNames == <<"len_gt_1", "len_gt_0", "len_eq_0">>

Criterion(name, points) ==
    CASE name = "len_gt_1" -> Len(points) > 1
      [] name = "len_gt_0" -> Len(points) > 0
      [] name = "len_eq_0" -> Len(points) = 0

RECURSIVE SubLists(_)
SubLists(s) ==
    IF s = <<>> THEN {<<>>}
    ELSE LET rest == SubLists(Tail(s))
         IN  rest \cup {<<Head(s)>> \o r : r \in rest}

\* Lists of criteria handed to subdivide / filter: the empty list and every
\* selection of the predicates.  The predicates are pure, so the order and
\* the repetitions of a list do not change any() or all() of it.
CriteriaLists == SubLists(CriterionNames)

\* A split that needs every criterion to hold.
AnyCriterionAsAll(criteria, points) ==
    \A i \in 1 .. Len(criteria) : Criterion(criteria[i], points)

\* any([criterion(points) for criterion in criteria])
AnyCriterion(criteria, points) ==
    \E i \in 1 .. Len(criteria) : Criterion(criteria[i], points)

\* A filter that keeps a leaf as soon as one criterion holds.
AllCriteriaAsAny(criteria, points) ==
    \E i \in 1 .. Len(criteria) : Criterion(criteria[i], points)

\* all([criterion(points) for criterion in criteria])
AllCriteria(criteria, points) ==
    \A i \in 1 .. Len(criteria) : Criterion(criteria[i], points)

\* Transformations RawPointCloud -> RawPointCloud.  "first" is the tests'
\* lambda cloud: [cloud[0]]; "reverse" and "zero_x" preserve the length.
FunctionNames == {"first", "reverse", "zero_x"}

LengthPreserving == {"reverse", "zero_x"}

\* Projects a point onto the plane x = 0 (the other columns are kept).
zero_x(point) == [point EXCEPT ![1] = 0]

Function(name, cloud) ==
    CASE name = "first" -> <<cloud[1]>>
      [] name = "reverse" -> [i \in 1 .. Len(cloud) |-> cloud[Len(cloud) + 1 - i]]
      [] name = "zero_x" -> [i \in 1 .. Len(cloud) |-> zero_x(cloud[i])]

---------------------------------------------------------------------------
(* Node operations *)

RECURSIVE insert_points(_, _)
RECURSIVE InsertIntoChildren(_, _, _)
RECURSIVE InsertEach(_, _)

\* Routing by the octant of the point relative to the parent's centre (the
\* corner of the last child), without a containment test.
InsertIntoChildrenByOctant(children, point, i) ==
    LET centre == children[Len(children)].corner
        bit(k) == IF Raw(point)[k] >= centre[k] THEN 1 ELSE 0
        octant == 1 + 4 * bit(1) + 2 * bit(2) + bit(3)
    IN  [children EXCEPT ![octant] = insert_points(children[octant], <<point>>)]

\* for child in children: if point is inside child.bounding_box:
\*     child.insert_points([point])          (no break after a match)
InsertIntoChildren(children, point, i) ==
    IF i > Len(children) THEN children
    ELSE IF point_is_inside_box(Raw(point), bounding_box(children[i]))
         THEN InsertIntoChildren(
                  [children EXCEPT ![i] = insert_points(children[i], <<point>>)],
                  point, i + 1)
         ELSE InsertIntoChildren(children, point, i + 1)

\* for point in points: ...
InsertEach(children, points) ==
    IF points = <<>> THEN children
    ELSE InsertEach(InsertIntoChildren(children, Head(points), 1), Tail(points))

insert_points(node, points) ==
    IF node.has_children
    THEN [node EXCEPT !.children = InsertEach(node.children, points)]
    ELSE [node EXCEPT !.points = node.points \o points]

RECURSIVE subdivide(_, _, _)
RECURSIVE SubdivideChildren(_, _, _, _)

\* A split that forgets to empty the parent's cloud.
ClearPointsSkipped(node) == node

\* self.points = []
ClearPoints(node) == [node EXCEPT !.points = <<>>]

\* for child in children: child.subdivide(criteria); an exception raised by
\* a child leaves the later children untouched.
SubdivideChildren(children, criteria, depth, i) ==
    IF i > Len(children) THEN [children |-> children, raised |-> FALSE]
    ELSE LET r == subdivide(children[i], criteria, depth)
             done == [children EXCEPT ![i] = r.node]
         IN  IF r.raised THEN [children |-> done, raised |-> TRUE]
             ELSE SubdivideChildren(done, criteria, depth, i + 1)

\* depth is the number of subdivide frames below this call.  The criteria
\* are evaluated first; the frames needed to construct the children are the
\* deepest of a call, so a RecursionError is raised there, before the node
\* is changed.
subdivide(node, criteria, depth) ==
    IF ~AnyCriterion(criteria, CriterionCloud(node.points))
    THEN [node |-> node, raised |-> FALSE]
    ELSE IF depth >= RecursionLimit
    THEN [node |-> node, raised |-> TRUE]
    ELSE LET split == [node EXCEPT !.children = NewChildren(node),
                                   !.has_children = TRUE]
             filled == insert_points(split, node.points)
             cleared == ClearPoints(filled)
             r == SubdivideChildren(cleared.children, criteria, depth + 1, 1)
         IN  [node |-> [cleared EXCEPT !.children = r.children],
              raised |-> r.raised]

RECURSIVE filter(_, _)

\* A filter that decides whether to prune before it filters the children.
FilterPruneFirst(node, criteria) ==
    IF node.has_children
    THEN IF \A i \in 1 .. Len(node.children) : n_points(node.children[i]) = 0
         THEN [node EXCEPT !.children = <<>>, !.has_children = FALSE]
         ELSE [node EXCEPT !.children = [i \in 1 .. Len(node.children) |->
                                            filter(node.children[i], criteria)]]
    ELSE IF ~AllCriteria(criteria, node.points)
         THEN [node EXCEPT !.points = <<>>]
         ELSE node

filter(node, criteria) ==
    IF node.has_children
    THEN LET filtered == [i \in 1 .. Len(node.children) |->
                             filter(node.children[i], criteria)]
         IN  IF \A i \in 1 .. Len(filtered) : n_points(filtered[i]) = 0
             THEN [node EXCEPT !.children = <<>>, !.has_children = FALSE]
             ELSE [node EXCEPT !.children = filtered]
    ELSE IF ~AllCriteria(criteria, node.points)
         THEN [node EXCEPT !.points = <<>>]
         ELSE node

\* points[points[:, 3] == pose_number]
filter_by_pose_number(pose_number, points) ==
    SelectSeq(points, LAMBDA point : point[4] = pose_number)

\* set(points.poses())
PosesOf(points) == {points[i][4] : i \in 1 .. Len(points)}

RECURSIVE MapPoseGroups(_, _, _)

\* A map that tags every transformed group with the pose of the cloud's
\* first point.
MapPoseGroupsOnePose(points, function, pose_numbers) ==
    IF pose_numbers = {} THEN <<>>
    ELSE LET pose_number == CHOOSE p \in pose_numbers :
                                \A q \in pose_numbers : p <= q
             group == filter_by_pose_number(pose_number, points)
         IN  with_pose(Function(function, without_poses(group)), points[1][4])
                 \o MapPoseGroups(points, function, pose_numbers \ {pose_number})

\* The loop over set(points.poses()); CPython iterates a small set of small
\* non-negative numbers in increasing order.
MapPoseGroups(points, function, pose_numbers) ==
    IF pose_numbers = {} THEN <<>>
    ELSE LET pose_number == CHOOSE p \in pose_numbers :
                                \A q \in pose_numbers : p <= q
             group == filter_by_pose_number(pose_number, points)
             mapped == IF Len(group) > 0
                       THEN with_pose(Function(function, without_poses(group)),
                                      pose_number)
                       ELSE <<>>
         IN  mapped \o MapPoseGroups(points, function,
                                     pose_numbers \ {pose_number})

RECURSIVE map_leaf_points(_, _)
map_leaf_points(node, function) ==
    IF node.has_children
    THEN [node EXCEPT !.children =
             [i \in 1 .. Len(node.children) |->
                 map_leaf_points(node.children[i], function)]]
    ELSE IF Len(node.points) > 0
    THEN IF variant = "multi"
         THEN [node EXCEPT !.points =
                  MapPoseGroups(node.points, function, PosesOf(node.points))]
         ELSE [node EXCEPT !.points = Function(function, node.points)]
    ELSE node

---------------------------------------------------------------------------
(* Per-pose counts of the multi-pose node *)

RECURSIVE n_points_for_pose(_, _)
n_points_for_pose(node, pose_number) ==
    IF node.has_children
    THEN SumSeq([i \in 1 .. Len(node.children) |->
                    n_points_for_pose(node.children[i], pose_number)])
    ELSE Len(filter_by_pose_number(pose_number, node.points))

RECURSIVE n_leaves_for_pose(_, _)

\* A leaf count that ignores the pose, as n_leafs of the base node does.
n_leaves_for_pose_any(node, pose_number) ==
    IF node.has_children
    THEN SumSeq([i \in 1 .. Len(node.children) |->
                    n_leaves_for_pose(node.children[i], pose_number)])
    ELSE 1

\* The leaf returns the bool len(...) != 0, which sums as 1 or 0.
n_leaves_for_pose(node, pose_number) ==
    IF node.has_children
    THEN SumSeq([i \in 1 .. Len(node.children) |->
                    n_leaves_for_pose(node.children[i], pose_number)])
    ELSE IF Len(filter_by_pose_number(pose_number, node.points)) # 0 THEN 1 ELSE 0

RECURSIVE n_nodes_for_pose(_, _)

\* A node count that counts an internal node whatever its children hold.
n_nodes_for_pose_always(node, pose_number) ==
    IF node.has_children
    THEN SumSeq([i \in 1 .. Len(node.children) |->
                    n_nodes_for_pose(node.children[i], pose_number)]) + 1
    ELSE IF Len(filter_by_pose_number(pose_number, node.points)) # 0 THEN 1 ELSE 0

n_nodes_for_pose(node, pose_number) ==
    IF node.has_children
    THEN LET n == SumSeq([i \in 1 .. Len(node.children) |->
                             n_nodes_for_pose(node.children[i], pose_number)])
         IN  IF n # 0 THEN n + 1 ELSE n
    ELSE IF Len(filter_by_pose_number(pose_number, node.points)) # 0 THEN 1 ELSE 0

---------------------------------------------------------------------------
(* Inputs *)

Half == RootEdge \div 2

\* The corner, its neighbour cell, a point on the face shared by the two
\* halves of the root, and a point on the root's max face (outside).
RawPoints == {<<0, 0, 0>>, <<1, 0, 0>>, <<Half, 0, 0>>, <<RootEdge, 0, 0>>}

PosePoints == {with_pose_point(p, q) : p \in RawPoints, q \in Poses}

InputPoints == IF variant = "multi" THEN PosePoints ELSE RawPoints

\* Clouds handed to insert_points: one point each.  A longer cloud is stored
\* as its points inserted one after the other (the leaf extends its cloud,
\* the internal node loops over the points), so it reaches no other tree.
InsertInputs == {<<p>> : p \in InputPoints}

Variants == {"base", "multi"}

NoCall == [op |-> "init", points |-> <<>>, criteria |-> <<>>,
           function |-> "none", raised |-> FALSE]

---------------------------------------------------------------------------
(* The tree: Octree delegates every operation to its root *)

\* OctreeBase.__init__
Init ==
    /\ variant \in Variants
    /\ root = Node(RootCorner, RootEdge)
    /\ call = NoCall

\* Octree.insert_points
InsertPoints ==
    \E points \in InsertInputs :
        /\ n_points(root) + Len(points) <= MaxPoints
        /\ root' = insert_points(root, points)
        /\ call' = [NoCall EXCEPT !.op = "insert_points", !.points = points]
        /\ UNCHANGED variant

\* Octree.subdivide
Subdivide ==
    \E criteria \in CriteriaLists :
        LET r == subdivide(root, criteria, 0)
        IN  /\ root' = r.node
            /\ call' = [NoCall EXCEPT !.op = "subdivide", !.criteria = criteria,
                                      !.raised = r.raised]
            /\ UNCHANGED variant

\* Octree.filter
Filter ==
    \E criteria \in CriteriaLists :
        /\ root' = filter(root, criteria)
        /\ call' = [NoCall EXCEPT !.op = "filter", !.criteria = criteria]
        /\ UNCHANGED variant

\* Octree.map_leaf_points
MapLeafPoints ==
    \E function \in FunctionNames :
        /\ root' = map_leaf_points(root, function)
        /\ call' = [NoCall EXCEPT !.op = "map_leaf_points", !.function = function]
        /\ UNCHANGED variant

Next == InsertPoints \/ Subdivide \/ Filter \/ MapLeafPoints

Spec == Init /\ [][Next]_vars

TypeOK == variant \in Variants /\ root.has_children \in BOOLEAN


---------------------------------------------------------------------------
(* Vocabulary of the properties *)

\* Paths (sequences of child indices) of the nodes of a subtree.
RECURSIVE Paths(_)
Paths(node) ==
    {<<>>} \cup UNION {{<<i>> \o path : path \in Paths(node.children[i])} :
                          i \in 1 .. Len(node.children)}

RECURSIVE NodeAt(_, _)
NodeAt(node, path) ==
    IF path = <<>> THEN node ELSE NodeAt(node.children[Head(path)], Tail(path))

IsLeaf(node) == ~node.has_children /\ Len(node.children) = 0

IsInternal(node) == node.has_children /\ Len(node.children) = 8

\* Number of occurrences of a point in a cloud.
CountIn(points, point) == Len(SelectSeq(points, LAMBDA q : q = point))

InsideNode(point, node) == point_is_inside_box(Raw(point), bounding_box(node))

\* Every stored point lies inside the tree's box.
AllStoredInside == \A i \in 1 .. Len(get_points(root)) :
                       InsideNode(get_points(root)[i], root)

\* The tree without its points: only the shape and the boxes.
RECURSIVE Shape(_)
Shape(node) ==
    [node EXCEPT !.points = <<>>,
                 !.children = [i \in 1 .. Len(node.children) |->
                                  Shape(node.children[i])]]

\* The tree with the pose column of every stored point removed.
RECURSIVE Untagged(_)
Untagged(node) ==
    [node EXCEPT !.points = without_poses(node.points),
                 !.children = [i \in 1 .. Len(node.children) |->
                                  Untagged(node.children[i])]]

---------------------------------------------------------------------------
(* Properties *)

\* C1: point conservation under subdivision.  Whenever every stored point
\* lies inside the tree's box, n_points of the tree is the same before and
\* after subdivide(C), for every list of criteria C and every tree reached by
\* insert_points / subdivide / filter / map_leaf_points.
C1_PointConservation ==
    [][(call'.op = "subdivide" /\ AllStoredInside)
           => n_points(root') = n_points(root)]_vars

\* C2: node structural invariant.  Every node is either a leaf (has_children
\* false, no children) or internal (has_children true, exactly 8 children),
\* and the local point set of every internal node is empty.
C2_NodeStructure ==
    \A path \in Paths(root) :
        LET node == NodeAt(root, path)
        IN  \/ IsLeaf(node)
            \/ IsInternal(node) /\ node.points = <<>>

\* A subdivided tree that holds points below an internal child of the root.
C2_Witness ==
    /\ root.has_children
    /\ \E i \in 1 .. 8 : root.children[i].has_children
                            /\ n_points(root.children[i]) > 0


\* C3: unique routing.  insert_points on an internal node stores every
\* point that lies inside the node's box exactly once more, in a leaf whose
\* box contains it (points on a face shared by siblings included), and the
\* tree it reaches is, up to the pose column, the same whatever the poses of
\* the inserted points.
C3_UniqueRouting ==
    [][(call'.op = "insert_points" /\ root.has_children) =>
        /\ \A k \in 1 .. Len(call'.points) :
             LET point == call'.points[k]
             IN  InsideNode(point, root) =>
                   /\ CountIn(get_points(root'), point)
                        = CountIn(get_points(root), point)
                            + CountIn(call'.points, point)
                   /\ \A path \in Paths(root') :
                        CountIn(NodeAt(root', path).points, point)
                                > CountIn(NodeAt(root, path).points, point)
                            => InsideNode(point, NodeAt(root', path))
        /\ variant = "multi" =>
             \A pose_number \in Poses :
                Untagged(insert_points(
                    root, with_pose(without_poses(call'.points), pose_number)))
                  = Untagged(root')
      ]_vars

\* A point on the face shared by the two halves of the root has been
\* inserted into a subdivided tree and is stored.
C3_Witness ==
    /\ call.op = "insert_points"
    /\ root.has_children
    /\ Raw(call.points[1]) = <<Half, 0, 0>>
    /\ CountIn(get_points(root), call.points[1]) >= 1

\* C4 as claimed: in any tree state, root leaf or root internal, a point
\* outside the root's box handed to insert_points is held by no node
\* afterwards: get_points and n_points are as if it had not been inserted.
C4_OutsideNeverStored ==
    [][call'.op = "insert_points" =>
        /\ \A k \in 1 .. Len(call'.points) :
             LET point == call'.points[k]
             IN  ~InsideNode(point, root) =>
                    CountIn(get_points(root'), point)
                        = CountIn(get_points(root), point)
        /\ n_points(root') = n_points(root)
              + Len(SelectSeq(call'.points, LAMBDA q : InsideNode(q, root)))
      ]_vars

\* C4 amended: when the root is internal, a point outside the root's box
\* handed to insert_points is held by no node afterwards; n_points grows by
\* the number of inserted points inside the box only.
C4_OutsideDroppedByInternalRoot ==
    [][(call'.op = "insert_points" /\ root.has_children) =>
        /\ \A k \in 1 .. Len(call'.points) :
             LET point == call'.points[k]
             IN  ~InsideNode(point, root) =>
                    CountIn(get_points(root'), point)
                        = CountIn(get_points(root), point)
        /\ n_points(root') = n_points(root)
              + Len(SelectSeq(call'.points, LAMBDA q : InsideNode(q, root)))
      ]_vars

\* A point outside the root's box has been inserted into a subdivided tree
\* that holds points.
C4_Witness ==
    /\ call.op = "insert_points"
    /\ root.has_children
    /\ ~InsideNode(call.points[1], root)
    /\ n_points(root) > 0

\* C5: subdivide only transitions leaves.  subdivide(C) on a tree whose root
\* is already internal leaves the whole tree, and every point stored in it,
\* unchanged, for any criteria C.
C5_InternalUntouched ==
    [][(call'.op = "subdivide" /\ root.has_children) => root' = root]_vars

\* C6: filter idempotence.  In every reachable tree and for every list of
\* criteria, filtering twice yields the same tree as filtering once.
C6_FilterIdempotent ==
    \A criteria \in CriteriaLists :
        filter(filter(root, criteria), criteria) = filter(root, criteria)

\* A subdivided tree that some filter changes.
C6_Witness ==
    /\ root.has_children
    /\ n_points(root) > 0
    /\ \E criteria \in CriteriaLists : filter(root, criteria) # root

\* C7: pruning correctness.  Right after filter(criteria), every internal
\* node holds a point somewhere below it, every node without points below
\* it is a leaf with an empty point set, and every non-empty leaf satisfies
\* all the criteria.
C7_PruningCorrect ==
    call.op = "filter" =>
        \A path \in Paths(root) :
            LET node == NodeAt(root, path)
            IN  /\ node.has_children => n_points(node) > 0
                /\ n_points(node) = 0 => IsLeaf(node) /\ node.points = <<>>
                /\ (IsLeaf(node) /\ node.points # <<>>)
                       => \A i \in 1 .. Len(call.criteria) :
                              Criterion(call.criteria[i], node.points)

\* A filter with two different criteria has left a subdivided tree with a
\* surviving leaf.
C7_Witness ==
    /\ call.op = "filter"
    /\ Len(call.criteria) = 2
    /\ call.criteria[1] # call.criteria[2]
    /\ root.has_children
    /\ n_points(root) > 0

\* C8: map_leaf_points(f) with a length-preserving f leaves n_points, the
\* number of leaves and the shape of the tree unchanged.  In the base variant
\* every non-empty leaf holds f(its former points); in the multi-pose variant
\* every pose group of a leaf holds f(its former points) under the same pose,
\* so n_points_for_pose and n_leaves_for_pose are unchanged for every pose.
C8_MapPreserves ==
    [][(call'.op = "map_leaf_points" /\ call'.function \in LengthPreserving) =>
        /\ n_points(root') = n_points(root)
        /\ n_leafs(root') = n_leafs(root)
        /\ Shape(root') = Shape(root)
        /\ \A path \in Paths(root) :
             LET old == NodeAt(root, path).points
                 new == NodeAt(root', path).points
             IN  IF variant = "multi"
                 THEN \A pose_number \in Poses :
                        filter_by_pose_number(pose_number, new)
                          = IF filter_by_pose_number(pose_number, old) = <<>>
                            THEN <<>>
                            ELSE with_pose(
                                   Function(call'.function, without_poses(
                                       filter_by_pose_number(pose_number, old))),
                                   pose_number)
                 ELSE new = IF old = <<>> THEN <<>>
                            ELSE Function(call'.function, old)
        /\ variant = "multi" =>
             \A pose_number \in Poses :
                /\ n_points_for_pose(root', pose_number)
                     = n_points_for_pose(root, pose_number)
                /\ n_leaves_for_pose(root', pose_number)
                     = n_leaves_for_pose(root, pose_number)
      ]_vars

\* A length-preserving map has run over a multi-pose leaf that holds points
\* of both poses.
C8_Witness ==
    /\ variant = "multi"
    /\ call.op = "map_leaf_points"
    /\ call.function \in LengthPreserving
    /\ \E path \in Paths(root) :
          \A pose_number \in Poses :
              filter_by_pose_number(pose_number, NodeAt(root, path).points) # <<>>

\* C9: after map_leaf_points with cloud -> [cloud[0]], every pose has as
\* many points as it has leaves: n_points_for_pose = n_leaves_for_pose.
C9_FirstPointPerLeaf ==
    (variant = "multi" /\ call.op = "map_leaf_points" /\ call.function = "first")
        => \A pose_number \in Poses :
              n_points_for_pose(root, pose_number)
                  = n_leaves_for_pose(root, pose_number)

\* The first-point map has run over a subdivided multi-pose tree that holds
\* points of one pose only.
C9_Witness ==
    /\ variant = "multi"
    /\ call.op = "map_leaf_points"
    /\ call.function = "first"
    /\ root.has_children
    /\ n_points_for_pose(root, 0) > 0
    /\ n_points_for_pose(root, 1) = 0

\* Points of a cloud tagged with a pose.
HoldsPose(points, pose_number) ==
    \E i \in 1 .. Len(points) : points[i][4] = pose_number

\* C10: per-pose counts.  For every pose p, n_leaves_for_pose(p) is the
\* number of leaves holding a point of p, n_nodes_for_pose(p) the number of
\* nodes whose subtree holds a point of p, and n_points_for_pose(p) the
\* number of stored points of p.
C10_PerPoseCounts ==
    variant = "multi" =>
        \A pose_number \in Poses :
            /\ n_leaves_for_pose(root, pose_number)
                 = Cardinality({path \in Paths(root) :
                       /\ ~NodeAt(root, path).has_children
                       /\ HoldsPose(NodeAt(root, path).points, pose_number)})
            /\ n_nodes_for_pose(root, pose_number)
                 = Cardinality({path \in Paths(root) :
                       HoldsPose(get_points(NodeAt(root, path)), pose_number)})
            /\ n_points_for_pose(root, pose_number)
                 = Len(SelectSeq(get_points(root),
                                 LAMBDA q : q[4] = pose_number))

\* A multi-pose tree with internal nodes below the root, points of pose 0
\* and none of pose 1.
C10_Witness ==
    /\ variant = "multi"
    /\ root.has_children
    /\ n_nodes_for_pose(root, 0) > n_leaves_for_pose(root, 0) + 1
    /\ n_nodes_for_pose(root, 1) = 0

\* The 27 points of the grid {corner, corner + half, corner + edge}^3 of a
\* node: its corners, its centre and the midpoints of its edges and faces.
GridPoints(node) ==
    LET half == node.edge_length \div 2
    IN  {[k \in 1 .. 3 |-> node.corner[k] + d[k] * half] :
            d \in [1 .. 3 -> {0, 1, 2}]}

\* Two cubes, read min-inclusive / max-exclusive, have no point in common.
DisjointBoxes(a, b) ==
    \E k \in 1 .. 3 : \/ a.corner[k] + a.edge_length <= b.corner[k]
                      \/ b.corner[k] + b.edge_length <= a.corner[k]

\* The cube of child lies within the cube of node.
BoxWithin(child, node) ==
    \A k \in 1 .. 3 :
        /\ node.corner[k] <= child.corner[k]
        /\ child.corner[k] + child.edge_length
               <= node.corner[k] + node.edge_length

Volume(node) == node.edge_length * node.edge_length * node.edge_length

\* C11: partition invariant.  The 8 children of every internal node have
\* half the parent's edge length and the corners parent corner + each
\* combination of {0, half} per axis; their boxes are pairwise disjoint and
\* their union is the parent's box (every grid point of the parent lies in
\* exactly one child if it lies in the parent, in none otherwise); the
\* root's corner and edge length are those of the construction.
C11_Partition ==
    /\ root.corner = RootCorner
    /\ root.edge_length = RootEdge
    /\ \A path \in Paths(root) :
         LET node == NodeAt(root, path)
             half == node.edge_length \div 2
         IN  node.has_children =>
               /\ \A i \in 1 .. Len(node.children) :
                     /\ 2 * node.children[i].edge_length = node.edge_length
                     /\ BoxWithin(node.children[i], node)
               /\ {node.children[i].corner : i \in 1 .. Len(node.children)}
                    = {[k \in 1 .. 3 |-> node.corner[k] + d[k] * half] :
                          d \in [1 .. 3 -> {0, 1}]}
               /\ \A i, j \in 1 .. Len(node.children) :
                     i # j => DisjointBoxes(node.children[i], node.children[j])
               /\ SumSeq([i \in 1 .. Len(node.children) |->
                             Volume(node.children[i])]) = Volume(node)
               /\ \A q \in GridPoints(node) :
                     Cardinality({i \in 1 .. Len(node.children) :
                         point_is_inside_box(q, bounding_box(node.children[i]))})
                       = IF point_is_inside_box(q, bounding_box(node))
                         THEN 1 ELSE 0

\* A tree split twice: an internal node below the internal root.
C11_Witness ==
    /\ root.has_children
    /\ \E i \in 1 .. 8 : root.children[i].has_children
    /\ call.op = "subdivide"
    /\ n_points(root) > 0

\* No predicate of the list is true on a point set of size <= 1.
NonPathological(criteria) ==
    \A i \in 1 .. Len(criteria) :
        /\ ~Criterion(criteria[i], <<>>)
        /\ \A point \in RawPoints : ~Criterion(criteria[i], <<point>>)

\* No two points of the cloud have the same coordinates.
DistinctCoordinates(points) ==
    \A i, j \in 1 .. Len(points) : i # j => Raw(points[i]) # Raw(points[j])

\* C12 as claimed: for every collection of inserted points, points with
\* identical coordinates included, and every list of criteria none of which
\* is true on a point set of size <= 1, the recursion of subdivide stops (it
\* does not run into the recursion limit).
C12_SubdivideTerminates ==
    (call.op = "subdivide" /\ NonPathological(call.criteria)) => ~call.raised

\* C12 amended: the same for collections of points with pairwise distinct
\* coordinates.
C12_SubdivideTerminatesOnDistinct ==
    [][(call'.op = "subdivide" /\ NonPathological(call'.criteria)
            /\ DistinctCoordinates(get_points(root)))
           => ~call'.raised]_vars

\* subdivide([len > 1]) has returned from a tree split twice to separate
\* two points of the same child.
C12_Witness ==
    /\ call.op = "subdivide"
    /\ call.criteria = <<"len_gt_1">>
    /\ ~call.raised
    /\ root.has_children
    /\ \E i \in 1 .. 8 : root.children[i].has_children
    /\ n_points(root) = 2

\* C13: counts of the base variant.  n_nodes is the number of structural
\* nodes of the tree and n_leafs the number of its leaves, empty leaves
\* counted.
C13_BaseCounts ==
    variant = "base" =>
        /\ n_nodes(root) = Cardinality(Paths(root))
        /\ n_leafs(root)
             = Cardinality({path \in Paths(root) :
                               ~NodeAt(root, path).has_children})

\* The points of a cloud held by the root that the routing hands down to
\* the node at a path.
RECURSIVE HeldAt(_, _, _)
HeldAt(points, node, path) ==
    IF path = <<>> THEN points
    ELSE LET child == node.children[Head(path)]
         IN  HeldAt(SelectSeq(points, LAMBDA q : InsideNode(q, child)),
                    child, Tail(path))

\* C14: subdivision reaches a fixpoint.  When subdivide(C) is called on a
\* tree whose root is a leaf and returns, every predicate of C is false on
\* the point set of every leaf of the result, and at least one predicate of
\* C is true on the points every internal node held when it was split; with
\* an empty list nothing is split.
C14_SubdivideFixpoint ==
    [][(call'.op = "subdivide" /\ ~root.has_children /\ ~call'.raised) =>
        /\ \A path \in Paths(root') :
             LET node == NodeAt(root', path)
             IN  IF node.has_children
                 THEN \E i \in 1 .. Len(call'.criteria) :
                        Criterion(call'.criteria[i],
                            CriterionCloud(HeldAt(root.points, root', path)))
                 ELSE \A i \in 1 .. Len(call'.criteria) :
                        ~Criterion(call'.criteria[i], CriterionCloud(node.points))
        /\ call'.criteria = <<>> => root' = root
      ]_vars

\* subdivide has returned from a leaf root it split because a criterion was
\* true on its points, and no leaf of the result holds more than one point.
C14_Witness ==
    /\ call.op = "subdivide"
    /\ ~call.raised
    /\ root.has_children
    /\ \E i \in 1 .. Len(call.criteria) :
          Criterion(call.criteria[i], CriterionCloud(get_points(root)))
    /\ \A path \in Paths(root) : Len(NodeAt(root, path).points) <= 1

====
